---------------------------- MODULE Spec2Model ----------------------------
(***************************************************************************)
(* Model of DeviceAdapters/Acquire/AcquireCamera.cpp: the adapter that     *)
(* reads frames from one or two streams of the acquisition driver (cpx),   *)
(* composites them into its image buffers (imgs) and inserts them into the *)
(* host's circular buffer, in a one-shot snap on the caller's thread or in *)
(* the cycles of the background sequence thread.                           *)
(*                                                                         *)
(* The driver (the cpx calls) and the host callback (InsertImage,          *)
(* ClearImageBuffer, PrepareForAcq) are external: their results are inputs *)
(* of the actions.                                                         *)
(* SequenceThread and isDual() are declared outside AcquireCamera.cpp;     *)
(* they are modelled from the specification's sections 3, 4.4, 4.6 and 5.  *)
(***************************************************************************)
EXTENDS Integers, Sequences, FiniteSets, TLC

----------------------------------------------------------------------------
(* Bounds of the model *)

\* most frames one map call returns
MaxAvail == 2

\* largest numImages passed to StartSequenceAcquisition (0 is "unbounded")
MaxNumImages == 1

\* sizeof(VideoFrame), the header of a frame: it holds at least bytes_of_frame,
\* frame_id and timestamps.hardware; its size is the build's, and any size
\* above one byte gives the same behaviours
SizeofVideoFrame == 24

\* width * height * depth of the pixel payload that follows the header
PayloadBytes == 8

\* frame_id of the first frame of a mapped range
StartFrameId == 100

----------------------------------------------------------------------------
(* Program constants *)

\* const int maxRetries = 1000, in readSnapImageFrames and readLiveFrames
maxRetries == 1000

\* MAXUINT64, the max_frame_count of an unbounded acquisition: 2^64 - 1 is
\* beyond the model checker's integers, -1 (the same bits) stands for it
MAXUINT64 == -1

g_Camera_None == "None"

CameraNames == {g_Camera_None, "simulated: a", "real", "real 2"}

\* camera1.rfind("simulated", 0) == 0
IsSimulated(c) == c \in {"simulated: a"}

Streams == {0, 1}

g_PixelType_8bit == "8bit"
g_PixelType_16bit == "16bit"

\* the values the PixelType property can be set to
PixelTypes == {g_PixelType_8bit, g_PixelType_16bit, "other"}

\* the allowed values of the Binning property
BinValues == {1, 2, 4}

DEVICE_OK == "DEVICE_OK"
DEVICE_ERR == "DEVICE_ERR"
DEVICE_BUFFER_OVERFLOW == "DEVICE_BUFFER_OVERFLOW"
DEVICE_CAMERA_BUSY_ACQUIRING == "DEVICE_CAMERA_BUSY_ACQUIRING"
ERR_TIMEOUT == "ERR_TIMEOUT"
ERR_INVALID_CAMERA_SELECTION == "ERR_INVALID_CAMERA_SELECTION"
ERR_CPX_CONFIURE_FAILED == "ERR_CPX_CONFIURE_FAILED"
ERR_UNKNOWN_PIXEL_TYPE == "ERR_UNKNOWN_PIXEL_TYPE"
CpxStatus_Error == "CpxStatus_Error"
Exception == "std::exception"
NoStatus == "none"

\* what InsertImage of the host callback can return
InsertStatus == {DEVICE_OK, DEVICE_BUFFER_OVERFLOW, DEVICE_ERR}

----------------------------------------------------------------------------
VARIABLES
    initialized_,    \* AcquireCamera::initialized_
    camera1,         \* AcquireCamera::camera1
    camera2,         \* AcquireCamera::camera2
    demo,            \* AcquireCamera::demo
    multiChannel,    \* AcquireCamera::multiChannel
    currentCamera,   \* AcquireCamera::currentCamera
    stopOnOverflow,  \* AcquireCamera::stopOnOverflow
    imgs,            \* AcquireCamera::imgs: the buffers (their pixels are recorded
                     \* per invocation, in snap.pixels, liveRec.pixels and sink)
    allowedDevices,  \* allowed values of the CurrentDevice property
    running,         \* driver: started and not stopped
    cpc,             \* caller thread: position inside SnapImage/StopSequenceAcquisition
    lastRet,         \* caller thread: what the last completed call returned
    lastOp,          \* caller thread: the operation it is in or was last in
    calls,           \* caller thread: the host, driver and thread calls lastOp has
                     \* made, in order (map and unmap calls are in snap)
    snap,            \* readSnapImageFrames: record of the invocation
    active,          \* SequenceThread: IsActive()
    stop_,           \* SequenceThread: stop flag
    numImages_,      \* SequenceThread: target frame count
    imageCounter_,   \* SequenceThread: frames delivered
    lpc,             \* sequence thread: position inside its loop / readLiveFrames
    live,            \* readLiveFrames: its locals
    liveRec,         \* readLiveFrames: record of the invocation
    sink             \* readLiveFrames: host callback calls made for the last frame

adapterVars == <<initialized_, camera1, camera2, demo, multiChannel, currentCamera,
                 stopOnOverflow, imgs, allowedDevices>>
callerVars == <<cpc, lastRet, lastOp, calls, snap>>
threadVars == <<active, stop_, numImages_, imageCounter_, lpc, live, liveRec, sink>>
vars == <<adapterVars, running, callerVars, threadVars>>

----------------------------------------------------------------------------
(* Frames and ranges *)

\* a frame is identified by its stream and frame_id; its timestamp and pixels
\* are those of that frame
Frame(s, id) == [stream |-> s, frame_id |-> id]

\* bytes that are no frame of the mapped range
Garbage == [stream |-> -1, frame_id |-> -1]

\* a buffer of imgs, as Resize(width, height, depth) leaves it
Buffer == "buffer"

\* VideoFrame::bytes_of_frame: header and payload
bytes_of_frame == SizeofVideoFrame + PayloadBytes

\* ConsumedBytes(cur, end): a range of n frames, in bytes
ConsumedBytes(range) == Len(range) * bytes_of_frame

Min(a, b) == IF a < b THEN a ELSE b

\* a call, with the values it passes where the properties are about them
Call(name, arg) == [call |-> name, arg |-> arg]

\* a range [beg, end) of n frames of stream s. The frame_id values of a poll
\* are written relative to the frames the previous poll of the acquisition
\* consumed: the last of those is StartFrameId - 1, so that the frame the
\* driver produced next is StartFrameId, and a range that starts gap frames
\* later is one before which the driver dropped gap frames. Within the range
\* the frames follow each other.
Range(s, gap, n) == [j \in 1..n |-> Frame(s, StartFrameId + gap + j - 1)]

----------------------------------------------------------------------------
(* The bounded retry of cpx_map_read *)

\* hitAt numbers the map calls of one retry loop: 0 is the call before the loop,
\* j >= 1 the call of the j-th iteration. The inputs are the number of the first
\* call that returns a non-empty range; maxRetries + 1: none of them does.
HitChoices == {0, 1, maxRetries - 1, maxRetries, maxRetries + 1}

\* int retries = 0;
\* while (beg == end && retries < maxRetries) { retries++; cpx_map_read(...); }
\* beg == end holds after the call numbered retries iff retries < hitAt, so the
\* loop counts retries up from 0 and leaves it at the first value that is hitAt
\* or maxRetries: the value of retries after the loop
RetryLoop(hitAt) == IF hitAt < maxRetries THEN hitAt ELSE maxRetries

\* if (retries >= maxRetries) return ERR_TIMEOUT;
TimedOut(retries) == retries >= maxRetries

\* the frames the driver dropped before the first frame of a range: none or one
GapChoices == {0, 1}

\* what the driver can answer to the map calls of one retry loop: from the call
\* numbered hitAt on, a range of n frames before which it dropped gap frames,
\* gap one of gaps; a driver that is not started has none
MapOutcomesWithGaps(gaps) ==
    { o \in [hitAt : HitChoices, n : 0..MaxAvail, gap : gaps] :
        /\ (o.hitAt <= maxRetries) <=> (o.n >= 1)
        /\ (o.n >= 1) => running
        /\ (o.n = 0) => o.gap = 0 }

\* the answers of a driver that drops no frame
MapOutcomes == MapOutcomesWithGaps({0})

\* the range [beg, end) the last map call of the loop returned
MappedRange(s, o, retries) == IF o.hitAt <= retries THEN Range(s, o.gap, o.n) ELSE <<>>

----------------------------------------------------------------------------
(* Initialization and properties *)

\* bool isDual(): a second camera is selected
isDual(cam2) == cam2 # g_Camera_None

\* the checks without the comparison of the two cameras
SelectionStatusNoDuplicate(cam1, cam2) ==
    IF cam1 = g_Camera_None THEN ERR_INVALID_CAMERA_SELECTION
    ELSE IF IsSimulated(cam1) /\ cam2 # g_Camera_None /\ ~IsSimulated(cam2)
         THEN ERR_INVALID_CAMERA_SELECTION
    ELSE DEVICE_OK

\* the camera selection checks of Initialize
SelectionStatus(cam1, cam2) ==
    IF cam1 = cam2 THEN ERR_INVALID_CAMERA_SELECTION
    ELSE IF cam1 = g_Camera_None THEN ERR_INVALID_CAMERA_SELECTION
    ELSE IF IsSimulated(cam1) /\ cam2 # g_Camera_None /\ ~IsSimulated(cam2)
         THEN ERR_INVALID_CAMERA_SELECTION
    ELSE DEVICE_OK

\* setupBuffers(width, height, depth, dual): imgs cleared and resized
setupBuffers(dual) == IF dual THEN <<Buffer, Buffer>> ELSE <<Buffer>>

\* what an invocation of readSnapImageFrames or readLiveFrames did, per stream:
\* whether it called map and the range the last map call returned, the unmap
\* calls and the bytes passed to the last one, the frames copied into imgs and the last
\* of them; what it returned; and, of the InsertImage calls of readLiveFrames,
\* the status of the first that failed with another status than overflow
\* (insertError), the status of the first that failed with that or with
\* overflow under stopOnOverflow (firstFail) and the host calls made after it
NoRecord ==
    [tried |-> [s \in Streams |-> FALSE], beg |-> [s \in Streams |-> <<>>],
     unmaps |-> [s \in Streams |-> 0], bytesConsumed |-> [s \in Streams |-> 0],
     composited |-> [s \in Streams |-> 0], pixels |-> [s \in Streams |-> Garbage],
     ret |-> NoStatus, insertError |-> NoStatus, firstFail |-> NoStatus,
     callsAfterFail |-> 0]

\* the locals of readLiveFrames; lastFrame is what the last loop iteration read
NoLocals ==
    [numFrames |-> 0, startFrameId |-> 0, i |-> 0, ptr1 |-> 0, ptr2 |-> 0,
     framesRead |-> 0,
     lastFrame |-> [i |-> -1, f1 |-> Garbage, f2 |-> Garbage, warned |-> {}]]

\* the state the constructor leaves
Init ==
    /\ initialized_ = FALSE
    /\ camera1 = ""
    /\ camera2 = ""
    /\ demo = TRUE
    /\ multiChannel = TRUE
    /\ currentCamera = 0
    /\ stopOnOverflow = FALSE
    /\ imgs = <<>>
    /\ allowedDevices = {}
    /\ running = FALSE
    /\ cpc = "idle"
    /\ lastRet = NoStatus
    /\ lastOp = "AcquireCamera"
    /\ calls = <<>>
    /\ snap = NoRecord
    /\ active = FALSE
    /\ stop_ = TRUE
    /\ numImages_ = 0
    /\ imageCounter_ = 0
    /\ lpc = "idle"
    /\ live = NoLocals
    /\ liveRec = NoRecord
    /\ sink = <<>>

\* the driver calls of an Initialize that succeeds, and its setupBuffers
InitializeCalls ==
    <<Call("cpx_init", <<>>), Call("cpx_configure", <<>>),
      Call("cpx_configure", <<1, 1>>), Call("setupBuffers", <<>>)>>

\* Initialize after its first test: the properties are read, the selection
\* is checked, the driver is set up and imgs is allocated
InitializeBody(prop1, prop2, cpxOk) ==
    LET status == SelectionStatus(prop1, prop2) IN
    /\ calls' = IF status # DEVICE_OK THEN <<>>
                ELSE IF ~cpxOk THEN <<Call("cpx_init", <<>>)>>
                ELSE InitializeCalls
    /\ multiChannel' = isDual(camera2)
    /\ camera1' = prop1
    /\ camera2' = prop2
    /\ allowedDevices' = allowedDevices \cup {prop1}
                           \cup (IF ~isDual(prop2) THEN {prop2} ELSE {})
    /\ demo' = IF status = DEVICE_OK THEN IsSimulated(prop1) ELSE demo
    /\ lastRet' = IF status # DEVICE_OK THEN status
                  ELSE IF ~cpxOk THEN CpxStatus_Error
                  ELSE DEVICE_OK
    /\ initialized_' = (status = DEVICE_OK /\ cpxOk)
    /\ imgs' = IF status = DEVICE_OK /\ cpxOk
               THEN setupBuffers(isDual(prop2))
               ELSE imgs
    /\ UNCHANGED <<currentCamera, stopOnOverflow>>

\* Initialize without the test of initialized_
InitializeAlways(prop1, prop2, cpxOk) ==
    /\ cpc = "idle"
    /\ lastOp' = "Initialize"
    /\ InitializeBody(prop1, prop2, cpxOk)
    /\ UNCHANGED <<running, cpc, snap, threadVars>>

\* int AcquireCamera::Initialize(), with the values of the Camera_1 and Camera_2
\* properties and whether every driver call of it succeeds
Initialize(prop1, prop2, cpxOk) ==
    /\ cpc = "idle"
    /\ lastOp' = "Initialize"
    /\ IF initialized_
       THEN /\ lastRet' = DEVICE_OK
            /\ calls' = <<>>
            /\ UNCHANGED adapterVars
       ELSE InitializeBody(prop1, prop2, cpxOk)
    /\ UNCHANGED <<running, cpc, snap, threadVars>>

\* int AcquireCamera::Shutdown(): liveThread->Stop()
Shutdown ==
    /\ cpc = "idle"
    /\ stop_' = TRUE
    /\ cpc' = "shutjoin"
    /\ lastOp' = "Shutdown"
    /\ calls' = <<Call("liveThread->Stop", <<>>)>>
    /\ UNCHANGED <<adapterVars, running, lastRet, snap, active, numImages_,
                   imageCounter_, lpc, live, liveRec, sink>>

\* Shutdown: liveThread->wait() returns once the thread has exited; the driver
\* is shut down (when there is one) and initialized_ is reset
ShutdownReturn ==
    /\ cpc = "shutjoin"
    /\ ~active
    /\ cpc' = "idle"
    /\ calls' = Append(calls, Call("liveThread->wait", <<>>))
    /\ running' = FALSE
    /\ initialized_' = FALSE
    /\ lastRet' = DEVICE_OK
    /\ UNCHANGED <<camera1, camera2, demo, multiChannel, currentCamera, stopOnOverflow,
                   imgs, allowedDevices, lastOp, snap, threadVars>>

\* int AcquireCamera::OnDevice(pProp, MM::AfterSet), with the value set
OnDevice(dev) ==
    /\ cpc = "idle"
    /\ initialized_
    /\ dev \in allowedDevices
    /\ currentCamera' = IF dev = camera1 THEN 0 ELSE 1
    /\ lastRet' = DEVICE_OK
    /\ lastOp' = "OnDevice"
    /\ calls' = <<>>
    /\ UNCHANGED <<initialized_, camera1, camera2, demo, multiChannel, stopOnOverflow,
                   imgs, allowedDevices, running, cpc, snap, threadVars>>

\* setPixelType and setBinning fail at their first getCpxProperties (1), at
\* cpx_configure (2), at the getCpxProperties of setupBuffers() (3), or not (0)
FailChoices == 0..3

\* the calls of setPixelType or setBinning after the value is accepted: read
\* the properties, configure the driver with the value, and setupBuffers():
\* read the properties again and setupBuffers(x, y, depth, isDual())
SettingCalls(value, failAt) ==
    <<Call("getCpxProperties", <<>>)>>
    \o (IF failAt # 1 THEN <<Call("cpx_configure", <<value>>)>> ELSE <<>>)
    \o (IF failAt \notin {1, 2} THEN <<Call("getCpxProperties", <<>>)>> ELSE <<>>)
    \o (IF failAt = 0 THEN <<Call("setupBuffers", <<>>)>> ELSE <<>>)

\* int AcquireCamera::OnPixelType(pProp, MM::AfterSet): setPixelType(pixType)
OnPixelType(pixType, failAt) ==
    /\ cpc = "idle"
    /\ initialized_
    /\ lastOp' = "OnPixelType"
    /\ LET depth == IF pixType = g_PixelType_8bit THEN 1
                    ELSE IF pixType = g_PixelType_16bit THEN 2 ELSE 0
       IN  IF failAt = 1
           THEN /\ calls' = SettingCalls(depth, failAt)
                /\ lastRet' = CpxStatus_Error
                /\ UNCHANGED imgs
           ELSE IF depth = 0
           THEN /\ calls' = <<Call("getCpxProperties", <<>>)>>
                /\ lastRet' = ERR_UNKNOWN_PIXEL_TYPE
                /\ UNCHANGED imgs
           ELSE /\ calls' = SettingCalls(depth, failAt)
                /\ lastRet' = IF failAt = 0 THEN DEVICE_OK ELSE CpxStatus_Error
                /\ imgs' = IF failAt = 0 THEN setupBuffers(isDual(camera2)) ELSE imgs
    /\ UNCHANGED <<initialized_, camera1, camera2, demo, multiChannel, currentCamera,
                   stopOnOverflow, allowedDevices, running, cpc, snap, threadVars>>

\* int AcquireCamera::OnBinning(pProp, MM::AfterSet): setBinning(bin), whose
\* status is dropped
OnBinning(bin, failAt) ==
    /\ cpc = "idle"
    /\ initialized_
    /\ lastOp' = "OnBinning"
    /\ calls' = SettingCalls(bin, failAt)
    /\ lastRet' = DEVICE_OK
    /\ imgs' = IF failAt = 0 THEN setupBuffers(isDual(camera2)) ELSE imgs
    /\ UNCHANGED <<initialized_, camera1, camera2, demo, multiChannel, currentCamera,
                   stopOnOverflow, allowedDevices, running, cpc, snap, threadVars>>

----------------------------------------------------------------------------
(* SnapImage, on the caller's thread *)

\* SnapImage up to readSnapImageFrames: configure one frame per stream, start
SnapImage(configureOk, startOk) ==
    /\ cpc = "idle"
    /\ initialized_
    /\ lastOp' = "SnapImage"
    /\ calls' = <<Call("cpx_configure", IF isDual(camera2) THEN <<1, 1>> ELSE <<1>>)>>
                   \o (IF configureOk THEN <<Call("cpx_start", <<>>)>> ELSE <<>>)
    /\ IF ~configureOk
       THEN /\ lastRet' = ERR_CPX_CONFIURE_FAILED
            /\ UNCHANGED <<running, cpc, snap>>
       ELSE IF ~startOk
       THEN /\ lastRet' = Exception
            /\ UNCHANGED <<running, cpc, snap>>
       ELSE /\ running' = TRUE
            /\ cpc' = "snap0"
            /\ snap' = NoRecord
            /\ UNCHANGED lastRet
    /\ UNCHANGED <<adapterVars, threadVars>>

\* one stream of readSnapImageFrames: map with retries, copy the first frame
\* of the range into imgs[s], unmap ConsumedBytes(beg, end)
readSnapStream(s, o) ==
    LET retries == RetryLoop(o.hitAt)
        beg == MappedRange(s, o, retries)
        \* uint32_t n = (uint32_t)ConsumedBytes(beg, end): the ranges here are far
        \* below 2^32 bytes, so the conversion keeps the value
        n == ConsumedBytes(beg)
        more == s = 0 /\ Len(imgs) > 1
    IN  IF TimedOut(retries)
        THEN /\ snap' = [snap EXCEPT !.tried[s] = TRUE,
                                     !.beg[s] = beg,
                                     !.ret = ERR_TIMEOUT]
             /\ cpc' = "snapstop"
        ELSE /\ snap' = [snap EXCEPT !.tried[s] = TRUE,
                                     !.beg[s] = beg,
                                     !.composited[s] = 1,
                                     !.pixels[s] = beg[1],
                                     !.unmaps[s] = @ + 1,
                                     !.bytesConsumed[s] = n,
                                     !.ret = IF more THEN NoStatus ELSE DEVICE_OK]
             /\ cpc' = IF more THEN "snap1" ELSE "snapstop"

\* readSnapImageFrames, first frame
readSnapImageFrames0(o) ==
    /\ cpc = "snap0"
    /\ readSnapStream(0, o)
    /\ UNCHANGED <<adapterVars, running, lastRet, lastOp, calls, threadVars>>

\* readSnapImageFrames, second frame (imgs.size() > 1)
readSnapImageFrames1(o) ==
    /\ cpc = "snap1"
    /\ readSnapStream(1, o)
    /\ UNCHANGED <<adapterVars, running, lastRet, lastOp, calls, threadVars>>

\* SnapImage returning the status of a failed readSnapImageFrames at once,
\* before cpx_stop
SnapImageReturnEarly ==
    /\ cpc = "snapstop"
    /\ running' = IF snap.ret # DEVICE_OK THEN running ELSE FALSE
    /\ calls' = IF snap.ret # DEVICE_OK THEN calls
                ELSE Append(calls, Call("cpx_stop", <<>>))
    /\ lastRet' = snap.ret
    /\ cpc' = "idle"
    /\ snap' = NoRecord
    /\ UNCHANGED <<adapterVars, lastOp, threadVars>>

\* SnapImage after readSnapImageFrames: cpx_stop, return ret
SnapImageReturn ==
    /\ cpc = "snapstop"
    /\ running' = FALSE
    /\ calls' = Append(calls, Call("cpx_stop", <<>>))
    /\ lastRet' = snap.ret
    /\ cpc' = "idle"
    /\ snap' = NoRecord
    /\ UNCHANGED <<adapterVars, lastOp, threadVars>>

----------------------------------------------------------------------------
(* StartSequenceAcquisition and StopSequenceAcquisition, on the caller's thread *)

NumImagesChoices == 0..MaxNumImages

\* IsCapturing() never reporting the thread
IsCapturingNever == FALSE

\* bool AcquireCamera::IsCapturing()
IsCapturing == active

\* SequenceThread::Start(numImages, interval_ms)
ThreadStart(numImages) ==
    /\ active' = TRUE
    /\ stop_' = FALSE
    /\ numImages_' = numImages
    /\ imageCounter_' = 0
    /\ lpc' = "loop"

\* max_frame_count = numImages, 0 included
MaxFrameCountRaw(numImages) == numImages

\* props.video[s].max_frame_count = numImages == 0 ? MAXUINT64 : numImages
MaxFrameCount(numImages) == IF numImages = 0 THEN MAXUINT64 ELSE numImages

\* the calls of a StartSequenceAcquisition(numImages, ...) that is not refused,
\* up to the first that fails; assigning stopOnOverflow is listed with them
StartCalls(numImages, prepareOk, configureOk, startOk) ==
    <<Call("PrepareForAcq", <<>>)>>
    \o (IF prepareOk
        THEN <<Call("cpx_configure", <<MaxFrameCount(numImages), MaxFrameCount(numImages)>>)>>
        ELSE <<>>)
    \o (IF prepareOk /\ configureOk THEN <<Call("cpx_start", <<>>)>> ELSE <<>>)
    \o (IF prepareOk /\ configureOk /\ startOk
        THEN <<Call("stopOnOverflow =", <<>>), Call("liveThread->Start", <<numImages>>)>>
        ELSE <<>>)

StartSequenceAcquisition(numImages, overflowFlag, prepareOk, configureOk, startOk) ==
    /\ cpc = "idle"
    /\ initialized_
    /\ lastOp' = "StartSequenceAcquisition"
    /\ calls' = IF IsCapturing THEN <<>>
                ELSE StartCalls(numImages, prepareOk, configureOk, startOk)
    /\ IF IsCapturing
       THEN /\ lastRet' = DEVICE_CAMERA_BUSY_ACQUIRING
            /\ UNCHANGED <<stopOnOverflow, running, active, stop_, numImages_,
                           imageCounter_, lpc>>
       ELSE IF ~prepareOk
       THEN /\ lastRet' = DEVICE_ERR
            /\ UNCHANGED <<stopOnOverflow, running, active, stop_, numImages_,
                           imageCounter_, lpc>>
       ELSE IF ~configureOk
       THEN /\ lastRet' = ERR_CPX_CONFIURE_FAILED
            /\ UNCHANGED <<stopOnOverflow, running, active, stop_, numImages_,
                           imageCounter_, lpc>>
       ELSE IF ~startOk
       THEN /\ lastRet' = CpxStatus_Error
            /\ UNCHANGED <<stopOnOverflow, running, active, stop_, numImages_,
                           imageCounter_, lpc>>
       ELSE /\ running' = TRUE
            /\ stopOnOverflow' = overflowFlag
            /\ ThreadStart(numImages)
            /\ lastRet' = DEVICE_OK
    /\ UNCHANGED <<initialized_, camera1, camera2, demo, multiChannel, currentCamera,
                   imgs, allowedDevices, cpc, snap, live, liveRec, sink>>

\* StopSequenceAcquisition: liveThread->Stop()
StopSequenceAcquisition ==
    /\ cpc = "idle"
    /\ initialized_
    /\ stop_' = TRUE
    /\ cpc' = "join"
    /\ lastOp' = "StopSequenceAcquisition"
    /\ calls' = <<Call("liveThread->Stop", <<>>)>>
    /\ UNCHANGED <<adapterVars, running, lastRet, snap, active, numImages_,
                   imageCounter_, lpc, live, liveRec, sink>>

\* a StopSequenceAcquisition that returns without waiting for the thread
StopSequenceAcquisitionReturnNoWait ==
    /\ cpc = "join"
    /\ cpc' = "idle"
    /\ calls' = Append(calls, Call("liveThread->wait", <<>>))
    /\ lastRet' = DEVICE_OK
    /\ UNCHANGED <<adapterVars, running, lastOp, snap, threadVars>>

\* StopSequenceAcquisition: liveThread->wait() returns once the thread has exited
StopSequenceAcquisitionReturn ==
    /\ cpc = "join"
    /\ ~active
    /\ cpc' = "idle"
    /\ calls' = Append(calls, Call("liveThread->wait", <<>>))
    /\ lastRet' = DEVICE_OK
    /\ UNCHANGED <<adapterVars, running, lastOp, snap, threadVars>>

----------------------------------------------------------------------------
(* readLiveFrames, on the sequence thread *)

\* ptr += n on a VideoFrame*: the address moves by n * sizeof(VideoFrame) bytes
AdvanceFramePtr(ptr, n) == ptr + n * SizeofVideoFrame

\* what is read through a VideoFrame* at byte offset ptr from beg: a frame of
\* the mapped range when ptr is the start of one, else memory outside the
\* range, whose frame_id field holds the expected value or any other one
ReadFrame(range, ptr, expected) ==
    IF ptr % bytes_of_frame = 0 /\ ptr \div bytes_of_frame < Len(range)
    THEN {range[(ptr \div bytes_of_frame) + 1]}
    ELSE {[stream |-> -1, frame_id |-> id] : id \in {-1, expected}}

\* the bytes memcpy copies from a frame's data
Pixels(frame) == IF frame.stream = -1 THEN Garbage ELSE frame

InsertImage(bufNum, pixels, md, ret) ==
    [call |-> "InsertImage", bufNum |-> bufNum, pixels |-> pixels, md |-> md, ret |-> ret]

ClearImageBuffer ==
    [call |-> "ClearImageBuffer", bufNum |-> -1, pixels |-> Garbage, md |-> -1,
     ret |-> DEVICE_OK]

\* imgs[bufNum].GetPixels(): outside the vector there is no buffer
GetPixels(bufs, bufNum) == IF bufNum < Len(bufs) THEN bufs[bufNum + 1] ELSE Garbage

\* the channel loop without the break after ClearImageBuffer: the channels that
\* follow an overflowing one are inserted too
RECURSIVE MultiChannelSinkNoBreak(_, _, _, _, _)
MultiChannelSinkNoBreak(bufNum, bufs, md, rets, overflowFlag) ==
    IF bufNum >= Len(bufs) THEN <<>>
    ELSE LET ret == rets[bufNum + 1]
             insert == InsertImage(bufNum, bufs[bufNum + 1], md, ret)
             rest == MultiChannelSinkNoBreak(bufNum + 1, bufs, md, rets, overflowFlag)
         IN  IF ~overflowFlag /\ ret = DEVICE_BUFFER_OVERFLOW
             THEN <<insert, ClearImageBuffer>> \o rest
             ELSE <<insert>> \o rest

\* if (multiChannel): for (bufNum = 0; bufNum < imgs.size(); bufNum++) {...};
\* the host calls from buffer bufNum on, rets[j] being what the j-th InsertImage
\* call of this frame returns
RECURSIVE MultiChannelSink(_, _, _, _, _)
MultiChannelSink(bufNum, bufs, md, rets, overflowFlag) ==
    IF bufNum >= Len(bufs) THEN <<>>
    ELSE LET ret == rets[bufNum + 1]
             insert == InsertImage(bufNum, bufs[bufNum + 1], md, ret)
         IN  IF ~overflowFlag /\ ret = DEVICE_BUFFER_OVERFLOW
             THEN <<insert, ClearImageBuffer>>
             ELSE <<insert>> \o MultiChannelSink(bufNum + 1, bufs, md, rets, overflowFlag)

\* else: insert imgs[currentCamera]; on overflow clear and insert again
SingleChannelSink(cam, bufs, md, rets, overflowFlag) ==
    LET insert == InsertImage(cam, GetPixels(bufs, cam), md, rets[1])
    IN  IF ~overflowFlag /\ rets[1] = DEVICE_BUFFER_OVERFLOW
        THEN <<insert, ClearImageBuffer, InsertImage(cam, GetPixels(bufs, cam), md, rets[2])>>
        ELSE <<insert>>

\* whether a host call is an InsertImage that failed with overflow while
\* stopOnOverflow is set, or with a status other than overflow
IsFailure(ev, overflowFlag) ==
    /\ ev.call = "InsertImage"
    /\ \/ ev.ret \notin {DEVICE_OK, DEVICE_BUFFER_OVERFLOW}
       \/ ev.ret = DEVICE_BUFFER_OVERFLOW /\ overflowFlag

\* the statuses other than DEVICE_OK and overflow the InsertImage calls returned
InsertErrors(events) ==
    SelectSeq([j \in 1..Len(events) |-> events[j].ret],
              LAMBDA r : r \notin {DEVICE_OK, DEVICE_BUFFER_OVERFLOW})

\* the first such call among events, 0 if none
FirstFailure(events, overflowFlag) ==
    IF \E j \in 1..Len(events) : IsFailure(events[j], overflowFlag)
    THEN CHOOSE j \in 1..Len(events) :
            /\ IsFailure(events[j], overflowFlag)
            /\ \A h \in 1..(j - 1) : ~IsFailure(events[h], overflowFlag)
    ELSE 0

\* the batch size taken from stream 0 alone
NumFramesOfStream0(dual, numFrames1, numFrames2) == numFrames1

\* size_t numFrames = isDual() ? min(numFrames1, numFrames2) : numFrames1
NumFrames(dual, numFrames1, numFrames2) ==
    IF dual THEN Min(numFrames1, numFrames2) ELSE numFrames1

\* readLiveFrames: framesRead = 0, then the retry loop on stream 0
readLiveFrames0(o) ==
    /\ lpc = "map0"
    /\ LET retries == RetryLoop(o.hitAt)
           beg1 == MappedRange(0, o, retries)
       IN  /\ liveRec' = [liveRec EXCEPT
                            !.tried[0] = TRUE,
                            !.beg[0] = beg1,
                            !.ret = IF TimedOut(retries) THEN ERR_TIMEOUT ELSE @]
           /\ live' = IF TimedOut(retries) THEN live
                      ELSE [live EXCEPT !.startFrameId = beg1[1].frame_id]
           /\ lpc' = IF TimedOut(retries) THEN "ret"
                     ELSE IF isDual(camera2) THEN "map1" ELSE "frames"
    /\ UNCHANGED <<adapterVars, running, callerVars, active, stop_, numImages_,
                   imageCounter_, sink>>

\* readLiveFrames: if (isDual()) the retry loop on stream 1
readLiveFrames1(o) ==
    /\ lpc = "map1"
    /\ LET retries == RetryLoop(o.hitAt)
           beg2 == MappedRange(1, o, retries)
       IN  /\ liveRec' = [liveRec EXCEPT
                            !.tried[1] = TRUE,
                            !.beg[1] = beg2,
                            !.ret = IF TimedOut(retries) THEN ERR_TIMEOUT ELSE @]
           /\ lpc' = IF TimedOut(retries) THEN "ret" ELSE "frames"
    /\ UNCHANGED <<adapterVars, running, callerVars, active, stop_, numImages_,
                   imageCounter_, live, sink>>

\* the frame id checks of an iteration that read f1 and f2: the streams for
\* which a missed frame is logged
MissedFrames(f1, f2) ==
    LET expected == live.startFrameId + live.i
    IN  {s \in Streams : \/ s = 0 /\ f1.frame_id # expected
                         \/ s = 1 /\ isDual(camera2) /\ f2.frame_id # expected}

\* the memcpy calls, the metadata and the host calls of an iteration that read
\* f1 and f2, the InsertImage calls returning rets
FrameSink(f1, f2, rets) ==
    LET dual == isDual(camera2)
        bufs0 == [imgs EXCEPT ![1] = Pixels(f1)]
        bufs == IF dual /\ Len(imgs) > 1 THEN [bufs0 EXCEPT ![2] = Pixels(f2)] ELSE bufs0
        md == f1.frame_id
    IN  IF multiChannel
        THEN MultiChannelSink(0, bufs, md, rets, stopOnOverflow)
        ELSE SingleChannelSink(currentCamera, bufs, md, rets, stopOnOverflow)

\* readLiveFrames: numFrames, and one iteration of for (i = 0; i < numFrames; i++)
\* with what the InsertImage calls return and, where a frame pointer is outside
\* its range, what is read through it
readLiveFramesIteration(rets, f1, f2) ==
    /\ lpc = "frames"
    /\ LET dual == isDual(camera2)
           beg1 == liveRec.beg[0]
           beg2 == liveRec.beg[1]
           numFrames1 == ConsumedBytes(beg1) \div bytes_of_frame
           numFrames2 == IF dual THEN ConsumedBytes(beg2) \div bytes_of_frame ELSE 0
           numFrames == NumFrames(dual, numFrames1, numFrames2)
           expected == live.startFrameId + live.i
           warned == MissedFrames(f1, f2)
           events == FrameSink(f1, f2, rets)
           fail == FirstFailure(events, stopOnOverflow)
       IN  /\ live.i < numFrames
           /\ f1 \in ReadFrame(beg1, live.ptr1, expected)
           /\ f2 \in IF dual THEN ReadFrame(beg2, live.ptr2, expected) ELSE {Garbage}
           /\ sink' = events
           /\ live' = [live EXCEPT
                         !.numFrames = numFrames,
                         !.lastFrame = [i |-> live.i, f1 |-> f1, f2 |-> f2,
                                        warned |-> warned],
                         !.ptr1 = AdvanceFramePtr(live.ptr1, bytes_of_frame),
                         !.ptr2 = IF dual THEN AdvanceFramePtr(live.ptr2, bytes_of_frame)
                                  ELSE live.ptr2,
                         !.i = live.i + 1]
           /\ liveRec' = [liveRec EXCEPT
                         !.composited[0] = @ + 1,
                         !.composited[1] = IF dual THEN @ + 1 ELSE @,
                         !.pixels[0] = Pixels(f1),
                         !.pixels[1] = IF dual THEN Pixels(f2) ELSE @,
                         !.insertError = IF @ = NoStatus /\ InsertErrors(events) # <<>>
                                         THEN Head(InsertErrors(events)) ELSE @,
                         !.firstFail = IF @ = NoStatus /\ fail > 0
                                       THEN events[fail].ret ELSE @,
                         !.callsAfterFail =
                             IF liveRec.firstFail # NoStatus THEN @ + Len(events)
                             ELSE IF fail > 0 THEN Len(events) - fail
                             ELSE @]
    /\ lpc' = "frames"
    /\ UNCHANGED <<adapterVars, running, callerVars, active, stop_, numImages_,
                   imageCounter_>>

\* an iteration that returns an error when a frame id is not the expected one
\* (the returns of ERR_CPX_MISSED_FRAME that the source has in comments)
readLiveFramesLoopAbort(rets, f1, f2) ==
    IF MissedFrames(f1, f2) = {}
    THEN readLiveFramesIteration(rets, f1, f2)
    ELSE /\ lpc = "frames"
         /\ live.i < NumFrames(isDual(camera2),
                               ConsumedBytes(liveRec.beg[0]) \div bytes_of_frame,
                               ConsumedBytes(liveRec.beg[1]) \div bytes_of_frame)
         /\ f1 \in ReadFrame(liveRec.beg[0], live.ptr1, live.startFrameId + live.i)
         /\ f2 \in IF isDual(camera2)
                    THEN ReadFrame(liveRec.beg[1], live.ptr2, live.startFrameId + live.i)
                    ELSE {Garbage}
         /\ live' = [live EXCEPT !.lastFrame = [i |-> live.i, f1 |-> f1, f2 |-> f2,
                                                 warned |-> MissedFrames(f1, f2)]]
         /\ liveRec' = [liveRec EXCEPT !.ret = DEVICE_ERR]
         /\ lpc' = "ret"
         /\ UNCHANGED <<adapterVars, running, callerVars, active, stop_, numImages_,
                        imageCounter_, sink>>

\* readLiveFrames: the loop for (i = 0; i < numFrames; i++), one iteration
readLiveFramesLoop(rets, f1, f2) == readLiveFramesIteration(rets, f1, f2)

\* readLiveFrames after the loop: unmap, framesRead = numFrames, return 0
readLiveFramesReturn ==
    /\ lpc = "frames"
    /\ LET dual == isDual(camera2)
           beg1 == liveRec.beg[0]
           beg2 == liveRec.beg[1]
           numFrames1 == ConsumedBytes(beg1) \div bytes_of_frame
           numFrames2 == IF dual THEN ConsumedBytes(beg2) \div bytes_of_frame ELSE 0
           numFrames == NumFrames(dual, numFrames1, numFrames2)
           unmap2 == dual /\ beg2 # <<>>
       IN  /\ live.i >= numFrames
           /\ liveRec' = [liveRec EXCEPT
                            !.unmaps[0] = @ + 1,
                            !.bytesConsumed[0] = numFrames * bytes_of_frame,
                            !.unmaps[1] = IF unmap2 THEN @ + 1 ELSE @,
                            !.bytesConsumed[1] = IF unmap2 THEN numFrames * bytes_of_frame
                                                 ELSE @,
                            !.ret = DEVICE_OK]
           /\ live' = [live EXCEPT !.numFrames = numFrames, !.framesRead = numFrames]
    /\ lpc' = "ret"
    /\ UNCHANGED <<adapterVars, running, callerVars, active, stop_, numImages_,
                   imageCounter_, sink>>

----------------------------------------------------------------------------
(* The sequence thread *)

\* the loop head: leave when stopped or the target is reached (numImages 0 is
\* unbounded), else start a cycle
ThreadLoop ==
    /\ lpc = "loop"
    /\ IF stop_ \/ (numImages_ # 0 /\ imageCounter_ >= numImages_)
       THEN /\ active' = FALSE
            /\ stop_' = TRUE
            /\ lpc' = "idle"
       ELSE /\ lpc' = "map0"
            /\ UNCHANGED <<active, stop_>>
    /\ live' = NoLocals
    /\ liveRec' = NoRecord
    /\ sink' = <<>>
    /\ UNCHANGED <<adapterVars, running, callerVars, numImages_, imageCounter_>>

\* the value up to which the frames delivered are counted: the target, and
\* without a target (numImages 0) one frame; beyond it the count decides nothing
CounterCap(numImages) == IF numImages = 0 THEN 1 ELSE numImages

\* after a cycle: leave on a status other than DEVICE_OK, else count the frames
\* delivered
ThreadCycleDone ==
    /\ lpc = "ret"
    /\ IF liveRec.ret # DEVICE_OK
       THEN /\ active' = FALSE
            /\ stop_' = TRUE
            /\ lpc' = "idle"
            /\ live' = NoLocals
            /\ liveRec' = NoRecord
            /\ sink' = <<>>
            /\ UNCHANGED imageCounter_
       ELSE /\ imageCounter_' = Min(imageCounter_ + live.framesRead,
                                    CounterCap(numImages_))
            /\ lpc' = "loop"
            /\ UNCHANGED <<active, stop_, live, liveRec, sink>>
    /\ UNCHANGED <<adapterVars, running, callerVars, numImages_>>

----------------------------------------------------------------------------
(* The whole adapter *)

\* what the frame pointers of the next loop iteration read
NextFrames1 == ReadFrame(liveRec.beg[0], live.ptr1, live.startFrameId + live.i)
NextFrames2 ==
    IF isDual(camera2)
    THEN ReadFrame(liveRec.beg[1], live.ptr2, live.startFrameId + live.i)
    ELSE {Garbage}

SnapNext ==
    \/ \E configureOk, startOk \in BOOLEAN : SnapImage(configureOk, startOk)
    \/ \E o \in MapOutcomes : readSnapImageFrames0(o)
    \/ \E o \in MapOutcomes : readSnapImageFrames1(o)
    \/ SnapImageReturn

SettingNext ==
    \/ \E pixType \in PixelTypes, failAt \in FailChoices : OnPixelType(pixType, failAt)
    \/ \E bin \in BinValues, failAt \in FailChoices : OnBinning(bin, failAt)

ShutdownNext ==
    \/ Shutdown
    \/ ShutdownReturn

StopNext ==
    \/ StopSequenceAcquisition
    \/ StopSequenceAcquisitionReturn

\* the sequence thread, the driver dropping gaps frames before a range and the
\* host's InsertImage returning a status of statuses
PollerNext(gaps, statuses) ==
    \/ ThreadLoop
    \/ \E o \in MapOutcomesWithGaps(gaps) : readLiveFrames0(o)
    \/ \E o \in MapOutcomesWithGaps(gaps) : readLiveFrames1(o)
    \/ \E rets \in [1..2 -> statuses], f1 \in NextFrames1, f2 \in NextFrames2 :
          readLiveFramesLoop(rets, f1, f2)
    \/ readLiveFramesReturn
    \/ ThreadCycleDone

\* the sequence thread with a driver that drops no frame
ThreadNext(statuses) == PollerNext({0}, statuses)

Next ==
    \/ \E prop1, prop2 \in CameraNames, cpxOk \in BOOLEAN : Initialize(prop1, prop2, cpxOk)
    \/ \E dev \in CameraNames : OnDevice(dev)
    \/ SnapNext
    \/ \E numImages \in NumImagesChoices, overflowFlag, prepareOk, configureOk, startOk \in BOOLEAN :
          StartSequenceAcquisition(numImages, overflowFlag, prepareOk, configureOk, startOk)
    \/ StopNext
    \/ PollerNext(GapChoices, InsertStatus)
    \/ SettingNext
    \/ ShutdownNext

Spec == Init /\ [][Next]_vars

----------------------------------------------------------------------------
(* Configuration: from the constructor's state, Initialize with any selection *)
(* and with the driver failing or not, the current device, and Shutdown      *)

NextConfigure ==
    \/ \E prop1, prop2 \in CameraNames, cpxOk \in BOOLEAN : Initialize(prop1, prop2, cpxOk)
    \/ \E dev \in CameraNames : OnDevice(dev)
    \/ ShutdownNext

SpecConfigure == Init /\ [][NextConfigure]_vars

----------------------------------------------------------------------------
(* Sessions of an initialized adapter.  The state space of Spec is the product *)
(* of every configuration, every caller position and every thread position;  *)
(* the specifications below start where Spec arrives and let part of the     *)
(* environment act.                                                          *)

\* the adapter as Spec's Initialize calls and OnDevice leave it: Initialized
\* holds after Initialize("real", camera2, TRUE), preceded by failed attempts
\* that left camera2 at "None" (multiChannel false) or not
Initialized ==
    /\ initialized_ = TRUE
    /\ camera1 = "real"
    /\ camera2 \in {g_Camera_None, "real 2"}
    /\ demo = FALSE
    /\ multiChannel \in BOOLEAN
    /\ imgs = setupBuffers(isDual(camera2))
    /\ allowedDevices = {"real", g_Camera_None}

Idle ==
    /\ running = FALSE
    /\ cpc = "idle"
    /\ snap = NoRecord
    /\ active = FALSE
    /\ stop_ = TRUE
    /\ numImages_ = 0
    /\ imageCounter_ = 0
    /\ lpc = "idle"
    /\ live = NoLocals
    /\ liveRec = NoRecord
    /\ sink = <<>>

\* after a successful Initialize: no acquisition yet
InitSession ==
    /\ Initialized
    /\ multiChannel = TRUE
    /\ currentCamera = 0
    /\ stopOnOverflow = FALSE
    /\ lastRet = DEVICE_OK
    /\ lastOp = "Initialize"
    /\ calls = InitializeCalls
    /\ Idle

\* snaps and streaming episodes in any order, the host's buffer never failing
NextSession ==
    \/ SnapNext
    \/ \E numImages \in NumImagesChoices, overflowFlag \in BOOLEAN :
          StartSequenceAcquisition(numImages, overflowFlag, TRUE, TRUE, TRUE)
    \/ StopNext
    \/ ThreadNext({DEVICE_OK})

SpecSession == InitSession /\ [][NextSession]_vars

\* after a successful StartSequenceAcquisition(numImages, stopOnOverflow)
InitLive ==
    /\ Initialized
    /\ currentCamera \in {0, 1}
    /\ stopOnOverflow \in BOOLEAN
    /\ running = TRUE
    /\ cpc = "idle"
    /\ lastRet = DEVICE_OK
    /\ lastOp = "StartSequenceAcquisition"
    /\ snap = NoRecord
    /\ active = TRUE
    /\ stop_ = FALSE
    /\ numImages_ \in NumImagesChoices
    /\ calls = StartCalls(numImages_, TRUE, TRUE, TRUE)
    /\ imageCounter_ = 0
    /\ lpc = "loop"
    /\ live = NoLocals
    /\ liveRec = NoRecord
    /\ sink = <<>>

\* one streaming episode: the sequence thread, and the caller stopping it
NextLive ==
    \/ ThreadNext(InsertStatus)
    \/ StopNext

SpecLive == InitLive /\ [][NextLive]_vars

\* what the host's buffer answers in SpecStop: success, or an overflow, which
\* ends the episode under stopOnOverflow and is cleared without it
StopStatuses == {DEVICE_OK, DEVICE_BUFFER_OVERFLOW}

NextStop ==
    \/ ThreadNext(StopStatuses)
    \/ StopNext

\* one streaming episode with its scheduling: the sequence thread is a thread
\* of its own and keeps running while it has a step to take, and a caller
\* blocked in liveThread->wait() returns once the thread has exited
SpecStop ==
    /\ InitLive
    /\ [][NextStop]_vars
    /\ WF_vars(ThreadNext(StopStatuses))
    /\ WF_vars(StopSequenceAcquisitionReturn)

\* snaps, streaming episodes and changes of the pixel type and the binning in
\* any order, the host's PrepareForAcq and the driver's calls failing or not,
\* the host's buffer never failing
NextControl ==
    \/ SnapNext
    \/ \E numImages \in NumImagesChoices,
          overflowFlag, prepareOk, configureOk, startOk \in BOOLEAN :
          StartSequenceAcquisition(numImages, overflowFlag, prepareOk, configureOk, startOk)
    \/ StopNext
    \/ ThreadNext({DEVICE_OK})
    \/ SettingNext

SpecControl == InitSession /\ [][NextControl]_vars

\* one streaming episode with a driver that drops frames between two polls,
\* the host's buffer never failing
NextGaps ==
    \/ PollerNext(GapChoices, {DEVICE_OK})
    \/ StopNext

SpecGaps == InitLive /\ [][NextGaps]_vars

----------------------------------------------------------------------------
(* The properties *)

\* readSnapImageFrames is at one of its streams
SnapReadInProgress == cpc \in {"snap0", "snap1"}

\* the invocations of the two read cycles that have returned
Returned ==
    (IF cpc = "snapstop" THEN {snap} ELSE {}) \cup (IF lpc = "ret" THEN {liveRec} ELSE {})

\* C1: the snap read cycle (readSnapImageFrames) is never in progress while
\* the sequence thread is active
C1_SnapExcludesPoller == ~(SnapReadInProgress /\ IsCapturing)

\* C2: in the streaming and in the snap read cycle, the byte count passed to
\* the unmap of a stream is the number of frames composited from that stream
\* times the frame stride, whatever number of frames the driver had mapped
C2_UnmapCountsCompositedFrames ==
    \A rec \in {snap, liveRec} : \A s \in Streams :
        rec.unmaps[s] > 0 => rec.bytesConsumed[s] = rec.composited[s] * bytes_of_frame

\* C3: when a read cycle returns, each stream whose map returned a range has
\* been unmapped exactly once, and no other stream has been unmapped
C3_UnmapOncePerMap ==
    \A rec \in Returned : \A s \in Streams :
        rec.unmaps[s] = IF rec.beg[s] # <<>> THEN 1 ELSE 0

\* C4: a read cycle returns Timeout if and only if a stream it mapped produced
\* no frame within the retries, the 1000th included
C4_TimeoutIffNoFrames ==
    \A rec \in Returned :
        (rec.ret = ERR_TIMEOUT) <=> (\E s \in Streams : rec.tried[s] /\ rec.beg[s] = <<>>)

\* the position in the host calls of a frame of the first InsertImage that
\* returned overflow, 0 if none did
FirstOverflow(events) ==
    IF \E j \in 1..Len(events) : events[j].ret = DEVICE_BUFFER_OVERFLOW
    THEN CHOOSE j \in 1..Len(events) :
            /\ events[j].ret = DEVICE_BUFFER_OVERFLOW
            /\ \A h \in 1..(j - 1) : events[h].ret # DEVICE_BUFFER_OVERFLOW
    ELSE 0

\* C5: with stopOnOverflow set, once an InsertImage of a cycle has returned
\* overflow the cycle makes no further host call (no ClearImageBuffer, no
\* InsertImage) and returns a status other than success
C5_StopOnOverflowEndsCycle ==
    (stopOnOverflow /\ liveRec.firstFail = DEVICE_BUFFER_OVERFLOW)
        => /\ liveRec.callsAfterFail = 0
           /\ lpc = "ret" => liveRec.ret # DEVICE_OK

\* C6: in single-channel mode an overflowing InsertImage is followed, when
\* stopOnOverflow is false, by one ClearImageBuffer and one more InsertImage
\* of the same image; when stopOnOverflow is true by no host call at all, the
\* cycle returning a status other than success
C6_SingleChannelOverflow ==
    (~multiChannel /\ sink # <<>> /\ sink[1].ret = DEVICE_BUFFER_OVERFLOW)
        => IF ~stopOnOverflow
           THEN /\ Len(sink) = 3
                /\ sink[2] = ClearImageBuffer
                /\ sink[3].call = "InsertImage"
                /\ sink[3].bufNum = sink[1].bufNum
                /\ sink[3].pixels = sink[1].pixels
                /\ sink[3].md = sink[1].md
           ELSE /\ Len(sink) = 1
                /\ liveRec.callsAfterFail = 0
                /\ lpc = "ret" => liveRec.ret # DEVICE_OK

\* C7: in multi-channel mode with stopOnOverflow false the channels of a frame
\* are inserted in index order; a channel's overflow is followed by exactly one
\* ClearImageBuffer and nothing else for that frame (no second InsertImage of
\* the channel, none of the channels after it), and the cycle goes on to the
\* next frame of the batch, returning only when the batch is done
C7_MultiChannelOverflow ==
    (multiChannel /\ ~stopOnOverflow /\ sink # <<>>)
        => LET j == FirstOverflow(sink)
               inserts == IF j = 0 THEN Len(imgs) ELSE j
           IN  /\ inserts <= Len(imgs)
               /\ \A h \in 1..inserts :
                     sink[h].call = "InsertImage" /\ sink[h].bufNum = h - 1
               /\ IF j = 0 THEN Len(sink) = inserts
                  ELSE /\ Len(sink) = inserts + 1
                       /\ sink[inserts + 1] = ClearImageBuffer
                       /\ liveRec.ret \in {NoStatus, DEVICE_OK}
                       /\ lpc # "frames" => live.i = live.numFrames

\* C7's case: two channels, the first frame of a batch of two overflows on
\* channel 0, channel 1 is skipped and the loop is at the second frame
C7_Witness ==
    /\ multiChannel /\ ~stopOnOverflow /\ Len(imgs) = 2
    /\ Len(sink) = 2
    /\ sink[1].ret = DEVICE_BUFFER_OVERFLOW
    /\ sink[2] = ClearImageBuffer
    /\ live.lastFrame.i = 0
    /\ live.numFrames = 2
    /\ lpc = "frames"

\* C8: an InsertImage failure other than overflow is what the cycle returns
C8_InsertErrorReturned ==
    (lpc = "ret" /\ liveRec.insertError # NoStatus) => liveRec.ret = liveRec.insertError

\* C9: a cycle that succeeds has delivered, and reports in framesRead, the
\* smaller of the two streams' mapped frame counts when two cameras are
\* configured, and stream 0's mapped frame count when one is
C9_BatchSize ==
    (lpc = "ret" /\ liveRec.ret = DEVICE_OK)
        => LET avail1 == Len(liveRec.beg[0])
               avail2 == Len(liveRec.beg[1])
               batch == IF camera2 = g_Camera_None THEN avail1
                        ELSE IF avail1 <= avail2 THEN avail1 ELSE avail2
           IN  /\ live.framesRead = batch
               /\ liveRec.composited[0] = batch
               /\ camera2 # g_Camera_None => liveRec.composited[1] = batch

\* C9's case: two cameras, stream 0 mapped two frames and stream 1 one
C9_Witness ==
    /\ lpc = "ret" /\ liveRec.ret = DEVICE_OK
    /\ camera2 # g_Camera_None
    /\ Len(liveRec.beg[0]) = 2
    /\ Len(liveRec.beg[1]) = 1
    /\ live.framesRead = 1

\* C10: the frame a loop iteration reads from a stream is the i-th frame of the
\* stream's mapped range, i being the iteration's index
C10_IthFrameOfRange ==
    live.lastFrame.i >= 0
        => /\ live.lastFrame.f1 = liveRec.beg[0][live.lastFrame.i + 1]
           /\ camera2 # g_Camera_None
                 => live.lastFrame.f2 = liveRec.beg[1][live.lastFrame.i + 1]

\* a step of the caller's thread that is a call of StartSequenceAcquisition
StartStep ==
    /\ cpc = "idle" /\ cpc' = "idle"
    /\ lastOp' = "StartSequenceAcquisition"
    /\ <<lastOp, calls, lastRet>>' # <<lastOp, calls, lastRet>>

\* C12: StartSequenceAcquisition called while the sequence thread is active
\* returns DEVICE_CAMERA_BUSY_ACQUIRING and makes no call (no PrepareForAcq, no
\* cpx_configure, no cpx_start, no liveThread->Start), and leaves stopOnOverflow,
\* the driver and the thread as they were
C12_StartWhileActiveIsBusy ==
    [][(StartStep /\ active)
          => /\ lastRet' = DEVICE_CAMERA_BUSY_ACQUIRING
             /\ calls' = <<>>
             /\ UNCHANGED <<stopOnOverflow, running, threadVars>>]_vars

\* C12's case: a call refused while the thread is in the frame loop of a cycle
C12_Witness ==
    /\ lastOp = "StartSequenceAcquisition"
    /\ lastRet = DEVICE_CAMERA_BUSY_ACQUIRING
    /\ calls = <<>>
    /\ active
    /\ lpc = "frames"

\* C18: when no map call on stream 0 returns a frame, readSnapImageFrames
\* returns Timeout without an unmap on either stream, without a copy into imgs
\* and without a map on stream 1; and a SnapImage that returns Timeout has
\* called cpx_stop last and leaves the driver stopped
C18_SnapTimeout ==
    /\ (cpc = "snapstop" /\ snap.tried[0] /\ snap.beg[0] = <<>>)
          => /\ snap.ret = ERR_TIMEOUT
             /\ ~snap.tried[1]
             /\ \A s \in Streams : snap.unmaps[s] = 0 /\ snap.composited[s] = 0
    /\ (cpc = "idle" /\ lastOp = "SnapImage" /\ lastRet = ERR_TIMEOUT)
          => /\ calls[Len(calls)] = Call("cpx_stop", <<>>)
             /\ ~running

\* C18's case: readSnapImageFrames has returned, stream 0 never had a frame
C18_Witness ==
    /\ cpc = "snapstop"
    /\ snap.tried[0]
    /\ snap.beg[0] = <<>>
    /\ snap.ret = ERR_TIMEOUT

\* the calls of a SnapImage whose cpx_start failed: nothing after cpx_start
SnapStartFailed ==
    /\ cpc = "idle"
    /\ lastOp = "SnapImage"
    /\ Len(calls) = 2
    /\ calls[2] = Call("cpx_start", <<>>)

\* C19: a SnapImage whose cpx_start fails returns a status code other than
\* success to its caller
C19_SnapStartFailureIsStatus ==
    SnapStartFailed => lastRet \notin {DEVICE_OK, Exception, NoStatus}

\* the order of the steps of StartSequenceAcquisition
StartOrder ==
    <<"PrepareForAcq", "cpx_configure", "cpx_start", "stopOnOverflow =",
      "liveThread->Start">>

\* the calls of a StartSequenceAcquisition that was not refused as busy
StartRan == lastOp = "StartSequenceAcquisition" /\ calls # <<>>

\* C20: StartSequenceAcquisition makes its steps in the order PrepareForAcq,
\* cpx_configure with the target count on both streams (the maximum count for
\* numImages 0), cpx_start, stopOnOverflow, liveThread->Start; it goes on to
\* a step only when the steps before succeeded; it returns success when all
\* did, and else an error, with the thread and stopOnOverflow as they were
C20_StartOrder ==
    /\ [](StartRan =>
            /\ Len(calls) <= Len(StartOrder)
            /\ \A j \in 1..Len(calls) : calls[j].call = StartOrder[j]
            /\ Len(calls) >= 2 =>
                  /\ Len(calls[2].arg) = 2
                  /\ calls[2].arg[1] = calls[2].arg[2]
                  /\ calls[2].arg[1] \in {MAXUINT64} \cup (1..MaxNumImages)
            /\ Len(calls) = Len(StartOrder) =>
                  /\ lastRet = DEVICE_OK
                  /\ calls[5].arg = <<numImages_>>
                  /\ calls[2].arg[1] = IF numImages_ = 0 THEN MAXUINT64 ELSE numImages_
            /\ Len(calls) < Len(StartOrder) => lastRet # DEVICE_OK)
    /\ [][(StartStep /\ calls' # <<>>) =>
            IF Len(calls') = Len(StartOrder)
            THEN active' /\ ~stop_' /\ lpc' = "loop" /\ running'
            ELSE UNCHANGED <<stopOnOverflow, threadVars>>]_vars

\* C20's case: an unbounded acquisition started with stopOnOverflow set
C20_Witness ==
    /\ StartRan
    /\ Len(calls) = Len(StartOrder)
    /\ calls[2].arg = <<MAXUINT64, MAXUINT64>>
    /\ stopOnOverflow
    /\ active

\* the last operation of the caller's thread cleared and resized imgs
Reallocated ==
    /\ lastOp \in {"OnPixelType", "OnBinning"}
    /\ \E j \in 1..Len(calls) : calls[j].call = "setupBuffers"

\* C14: imgs is not cleared and resized by a change of the pixel type or of
\* the binning while the sequence thread is active or a snap is in progress
\* (the thread is started by the caller's thread only: one that is active after
\* the change was active during it)
C14_NoReallocationWhileAcquiring ==
    ~(Reallocated /\ (active \/ cpc \in {"snap0", "snap1", "snapstop"}))

\* a failed selection: the status, no driver call, not initialized, and imgs
\* not allocated anew
SelectionRefused ==
    /\ lastRet' = ERR_INVALID_CAMERA_SELECTION
    /\ calls' = <<>>
    /\ ~initialized_'
    /\ imgs' = imgs

\* C15: every Initialize with Camera_1 equal to Camera_2, both naming a
\* camera, fails with ERR_INVALID_CAMERA_SELECTION, makes no driver call and
\* leaves the adapter not initialized, no buffer allocated
C15_DuplicateSelectionRejected ==
    [][\A p \in CameraNames \ {g_Camera_None} : \A cpxOk \in BOOLEAN :
          Initialize(p, p, cpxOk) => SelectionRefused]_vars

\* C15 as amended: so does every such Initialize of an adapter that is not
\* initialized
C15_DuplicateSelectionRejectedWhenNotInitialized ==
    [][\A p \in CameraNames \ {g_Camera_None} : \A cpxOk \in BOOLEAN :
          (~initialized_ /\ Initialize(p, p, cpxOk)) => SelectionRefused]_vars

\* C15's case: Initialize has run with "real" selected twice
C15_Witness ==
    /\ lastOp = "Initialize"
    /\ camera1 = "real" /\ camera2 = "real"
    /\ lastRet = ERR_INVALID_CAMERA_SELECTION
    /\ ~initialized_

\* what the claims call an acceptable selection: two different devices, the
\* first one a camera, and a simulated camera only with another simulated
\* one or with none
ValidSelection(cam1, cam2) ==
    /\ cam1 # cam2
    /\ cam1 # g_Camera_None
    /\ IsSimulated(cam1) => (IsSimulated(cam2) \/ cam2 = g_Camera_None)
    /\ IsSimulated(cam2) => IsSimulated(cam1)

\* C16: an Initialize that succeeds has an acceptable selection
C16_OnlyValidSelectionAccepted ==
    [][\A prop1, prop2 \in CameraNames : \A cpxOk \in BOOLEAN :
          (~initialized_ /\ Initialize(prop1, prop2, cpxOk) /\ lastRet' = DEVICE_OK)
              => ValidSelection(prop1, prop2)]_vars

\* C17: an Initialize of an initialized adapter checks the selection again
\* and allocates imgs again
C17_InitializeAgainRevalidates ==
    [][\A prop1, prop2 \in CameraNames : \A cpxOk \in BOOLEAN :
          (initialized_ /\ Initialize(prop1, prop2, cpxOk))
              => /\ ~ValidSelection(prop1, prop2)
                    => lastRet' = ERR_INVALID_CAMERA_SELECTION
                 /\ lastRet' = DEVICE_OK
                    => \E j \in 1..Len(calls') : calls'[j].call = "setupBuffers"]_vars

\* C17 as amended: an Initialize of an initialized adapter returns DEVICE_OK
\* at once, without a check of the selection, a driver call or an allocation,
\* the adapter staying as it is; an Initialize that succeeds on an adapter
\* that is not initialized has checked the selection (two different names, the
\* first a camera) and allocated one buffer per selected camera
C17_InitializeAgainReturnsAtOnce ==
    [][\A prop1, prop2 \in CameraNames : \A cpxOk \in BOOLEAN :
          Initialize(prop1, prop2, cpxOk)
              => IF initialized_
                 THEN /\ lastRet' = DEVICE_OK
                      /\ calls' = <<>>
                      /\ UNCHANGED adapterVars
                 ELSE initialized_'
                         => /\ prop1 # prop2 /\ prop1 # g_Camera_None
                            /\ calls'[Len(calls')].call = "setupBuffers"
                            /\ Len(imgs') = IF prop2 = g_Camera_None THEN 1 ELSE 2]_vars

\* C17's case: Initialize has returned at once on an initialized adapter
C17_Witness ==
    /\ lastOp = "Initialize"
    /\ initialized_
    /\ lastRet = DEVICE_OK
    /\ calls = <<>>

----------------------------------------------------------------------------
\* the sequence thread is inside readLiveFrames
InReadLiveFrames == lpc \in {"map0", "map1", "frames"}

\* the sequence thread starts a polling cycle
StartsCycle == lpc = "loop" /\ lpc' = "map0"

\* StopSequenceAcquisition has returned
StopReturned == lastOp = "StopSequenceAcquisition" /\ cpc = "idle"

\* C13: StopSequenceAcquisition signals the sequence thread and blocks until it
\* has exited. When it has returned the thread is not active and IsCapturing()
\* is false; while the stop flag is set the thread starts no polling cycle, so
\* it completes at most the cycle in progress; the flag is looked at at the
\* loop head only: inside readLiveFrames the thread stays active and the
\* cycle goes on to its next position, whatever the flag; and a caller that
\* waits in liveThread->wait() returns, the retry loops being bounded.
C13_StopJoinsPoller ==
    /\ [](StopReturned => ~active /\ ~IsCapturing)
    /\ [][/\ (stop_ => ~StartsCycle)
          /\ (cpc = "idle" /\ cpc' = "join" => stop_')
          /\ (InReadLiveFrames /\ lpc' # lpc =>
                 /\ active' = active
                 /\ lpc' \in {"map1", "frames", "ret"})]_vars
    /\ (cpc = "join" ~> (StopReturned /\ ~active))

\* an acquisition without a target (numImages 0) was stopped: the call has
\* signalled the thread, waited and returned, and the thread has exited
C13_Witness ==
    /\ StopReturned
    /\ calls = <<Call("liveThread->Stop", <<>>), Call("liveThread->wait", <<>>)>>
    /\ numImages_ = 0
    /\ stop_
    /\ ~active
    /\ lpc = "idle"

----------------------------------------------------------------------------
\* the frame of the mapped range of stream s that the last loop iteration of
\* readLiveFrames consumed
ConsumedFrame(s) == liveRec.beg[s][live.lastFrame.i + 1]

\* a frame of stream s was consumed before ConsumedFrame(s): in this poll, or in
\* an earlier poll of the acquisition
HasPreviousFrame == live.lastFrame.i >= 1 \/ imageCounter_ > 0

\* its frame_id: that of the frame before it in the range, or of the last frame
\* the preceding poll consumed
PreviousFrameId(s) ==
    IF live.lastFrame.i >= 1 THEN liveRec.beg[s][live.lastFrame.i].frame_id
    ELSE StartFrameId - 1

\* C11: every gap in the frame_id sequence of the frames consumed on a stream is
\* logged. When a loop iteration of readLiveFrames has consumed a frame of a
\* stream whose frame_id is not one more than that of the frame consumed before
\* it on that stream, the last frame of the preceding poll included, the
\* iteration has logged a missed frame for that stream.
C11_EveryGapLogged ==
    \A s \in Streams :
        (/\ lpc \in {"frames", "ret"}
         /\ live.lastFrame.i >= 0
         /\ (s = 0 \/ isDual(camera2))
         /\ HasPreviousFrame
         /\ ConsumedFrame(s).frame_id # PreviousFrameId(s) + 1)
        => s \in live.lastFrame.warned

----------------------------------------------------------------------------
\* C23: the selected camera is the index of an allocated buffer. In every state
\* of an initialized adapter currentCamera is less than the number of buffers
\* of imgs, so that imgs[currentCamera] in GetImageBuffer and in the
\* single-channel branch of readLiveFrames is a buffer that exists.
C23_CurrentCameraIsBufferIndex == initialized_ => currentCamera < Len(imgs)

----------------------------------------------------------------------------
\* C22: every image inserted into the host's buffer carries the metadata of
\* the frame its pixels come from. For each InsertImage call made for the last
\* frame whose pixels are those of a frame of a mapped range, the CpxFrameId
\* tag is that frame's frame_id (and the timestamp tag, which goes with it, that
\* frame's timestamp): with two cameras, the image of channel 2 carries the
\* frame_id of the frame of stream 1.
C22_MetadataOfInsertedFrame ==
    \A k \in 1..Len(sink) :
        (sink[k].call = "InsertImage" /\ sink[k].pixels.stream >= 0)
        => sink[k].md = sink[k].pixels.frame_id

----------------------------------------------------------------------------
\* a host call without the pixels and the metadata it passes
EventShape(ev) == [call |-> ev.call, bufNum |-> ev.bufNum, ret |-> ev.ret]

Shape(events) == [k \in 1..Len(events) |-> EventShape(events[k])]

\* the frame f read by the iteration in progress, with the frame_id it has when
\* the frame ids of the poll are contiguous
ContiguousTwin(f) == [f EXCEPT !.frame_id = live.startFrameId + live.i]

\* the number of frames of the batch, from the lengths of the mapped ranges
BatchFrames == NumFrames(isDual(camera2), Len(liveRec.beg[0]), Len(liveRec.beg[1]))

\* the sequence thread takes a step of the loop of readLiveFrames or of what
\* follows it
StepAfterMapping == lpc = "frames" /\ <<lpc, live>>' # <<lpc, live>>

\* C21: a frame_id that is not the expected one changes nothing of a batch but
\* the warning. Whatever the frame ids read, every iteration of the batch is
\* carried out: it composites the frame read of each stream, does not set the
\* status, and makes the host calls, in number, order, buffer and result, that
\* it makes for the same frames with contiguous frame ids and the same answers
\* of the host; and after the last iteration readLiveFrames unmaps, on each
\* stream read, the bytes of the frames of the batch, sets framesRead to their
\* number and returns DEVICE_OK: number, bytes and status are those given by
\* the lengths of the mapped ranges alone.
C21_MismatchOnlyWarns ==
    [][StepAfterMapping =>
         IF live.i < BatchFrames
         THEN /\ lpc' = "frames"
              /\ live'.i = live.i + 1
              /\ liveRec'.ret = liveRec.ret
              /\ liveRec'.unmaps = liveRec.unmaps
              /\ liveRec'.composited[0] = liveRec.composited[0] + 1
              /\ liveRec'.composited[1] =
                    liveRec.composited[1] + (IF isDual(camera2) THEN 1 ELSE 0)
              /\ liveRec'.pixels[0] = Pixels(live'.lastFrame.f1)
              /\ isDual(camera2) => liveRec'.pixels[1] = Pixels(live'.lastFrame.f2)
              /\ \E rets \in [1..2 -> InsertStatus] :
                    /\ sink' = FrameSink(live'.lastFrame.f1, live'.lastFrame.f2, rets)
                    /\ Shape(sink') =
                          Shape(FrameSink(ContiguousTwin(live'.lastFrame.f1),
                                          ContiguousTwin(live'.lastFrame.f2), rets))
         ELSE /\ lpc' = "ret"
              /\ liveRec'.ret = DEVICE_OK
              /\ live'.framesRead = BatchFrames
              /\ liveRec'.unmaps[0] = 1
              /\ liveRec'.bytesConsumed[0] = BatchFrames * bytes_of_frame
              /\ isDual(camera2) =>
                    /\ liveRec'.unmaps[1] = 1
                    /\ liveRec'.bytesConsumed[1] = BatchFrames * bytes_of_frame
              /\ liveRec'.composited = liveRec.composited
              /\ sink' = sink]_vars

\* a batch of two cameras whose frame of stream 1 did not have the expected
\* frame_id: the missed frame was logged, the frame was inserted and
\* readLiveFrames has unmapped and returned DEVICE_OK
C21_Witness ==
    /\ lpc = "ret"
    /\ liveRec.ret = DEVICE_OK
    /\ live.lastFrame.i = 0
    /\ live.lastFrame.f2.stream = 1
    /\ 1 \in live.lastFrame.warned
    /\ liveRec.composited[1] = 1
    /\ liveRec.unmaps[1] = 1
    /\ Len(sink) > 0

====
